---- MODULE Spec2Model ----
(***************************************************************************)
(* Model of the OpenAI-Compatible-Wrapper repository.                      *)
(*                                                                         *)
(*   Spec           src/wrapper/compatible.py: OpenAICompatibleWrapper     *)
(*                  (construction, the intercepted create, attribute       *)
(*                  lookup on the wrapper)                                 *)
(*   SchemaSpec     src/utils/tool_schema.py: function_to_tool_schema      *)
(*   DecoratorSpec  src/utils/tool_schema.py: tool_schema_decorator        *)
(*                                                                         *)
(* Python strings that the code scans (docstrings, parameter names) are    *)
(* sequences of one-character strings.                                     *)
(***************************************************************************)
EXTENDS Integers, Sequences, FiniteSets, TLC

VARIABLES
    \* ---- OpenAICompatibleWrapper (one entry per constructed wrapper) ----
    base_client,          \* self.base_client
    default_chat_params,  \* self.default_chat_params
    original_create,      \* self.__original_create
    client_create,        \* client.chat.completions.create, per client instance
    ctor_params,          \* history: chat_params given to each __init__
    ctor_create,          \* history: the entry point each __init__ found
    obs,                  \* what the last operation on a wrapper did and returned
    \* ---- tool_schema.py ----
    func,                 \* the function handed to the schema code
    result,               \* outcome of function_to_tool_schema(func)
    decorated,            \* the wrapper object returned by tool_schema_decorator
    computed,             \* history: number of function_to_tool_schema runs
    wcall                 \* what the last call of the decorated wrapper did

wrapperVars == <<base_client, default_chat_params, original_create,
                 client_create, ctor_params, ctor_create, obs>>
schemaVars == <<func, result, decorated, computed, wcall>>
vars == <<wrapperVars, schemaVars>>

(***************************************************************************)
(* Bounds                                                                  *)
(***************************************************************************)
MaxWrappers == 2   \* wrappers constructed in one behaviour
MaxParams == 2     \* parameters of an inspected function
MaxChunks == 4     \* pieces a docstring is assembled from

(***************************************************************************)
(* Part 1: OpenAICompatibleWrapper                                         *)
(***************************************************************************)

\* Client instances a factory `base()` can return: a factory may build a
\* fresh client each time or hand out a shared one.
Clients == {"c1", "c2"}

\* Keyword-parameter mappings (**kwargs): finite functions from names to values.
EmptyParams == [k \in {} |-> 0]
ParamSets ==
    { m @@ t : m \in {EmptyParams, "model" :> "gpt-x"},
               t \in {EmptyParams} \cup {"temperature" :> v : v \in {0, 1}} }

\* Default parameters given to constructors: none, the two temperatures, and
\* a model with a temperature.
DefaultSets ==
    { EmptyParams, "temperature" :> 0, "temperature" :> 1,
      "model" :> "gpt-x" @@ "temperature" :> 0 }

\* Callables that can sit at client.chat.completions.create.
OriginalOf(c) == [kind |-> "original", client |-> c, w |-> 0]
InterceptOf(w) == [kind |-> "intercept", client |-> "-", w |-> w]

\* What the real (unwrapped) entry point does when it is invoked.
Outcomes == { [kind |-> "return", value |-> "response"],
              [kind |-> "raise", value |-> "APIError"] }

Wrappers == 1..Len(base_client)

\* {**self.default_chat_params, **kwargs}
MergeParamsDefaultsWin(defaults, kwargs) ==
    [k \in DOMAIN defaults \cup DOMAIN kwargs |->
        IF k \in DOMAIN defaults THEN defaults[k] ELSE kwargs[k]]

MergeParams(defaults, kwargs) ==
    [k \in DOMAIN defaults \cup DOMAIN kwargs |->
        IF k \in DOMAIN kwargs THEN kwargs[k] ELSE defaults[k]]

\* Calling a callable with **kwargs.  `outcome` is what the real entry point
\* does if it is reached, `dcp` the default_chat_params of all wrappers.
\* Yields the log of every callable invoked with the parameters it received
\* (in order), what the caller observes, and default_chat_params afterwards.
RECURSIVE CallEntry(_, _, _, _)
RECURSIVE __create(_, _, _, _)

CallEntry(callable, kwargs, outcome, dcp) ==
    CASE callable.kind = "original" ->
            [log |-> << [callee |-> callable, params |-> kwargs] >>,
             result |-> outcome,
             dcp |-> dcp]
      [] callable.kind = "intercept" ->
            LET r == __create(callable.w, kwargs, outcome, dcp)
            IN  [r EXCEPT !.log = << [callee |-> callable, params |-> kwargs] >> \o r.log]
      [] OTHER ->   \* the attribute lookup itself failed: nothing is called
            [log |-> <<>>,
             result |-> [kind |-> "raise", value |-> "AttributeError"],
             dcp |-> dcp]

\* Faulty variant: on a failure of the original, swallow it, call once more and
\* return None.
__create_retry(w, kwargs, outcome, dcp) ==
    LET merged == [k \in DOMAIN dcp[w] \cup DOMAIN kwargs |->
                      IF k \in DOMAIN kwargs THEN kwargs[k] ELSE dcp[w][k]]
        r == CallEntry(original_create[w], merged, outcome, dcp)
    IN  IF r.result.kind = "raise"
        THEN [log |-> r.log \o r.log,
              result |-> [kind |-> "return", value |-> "None"],
              dcp |-> r.dcp]
        ELSE r

\* Faulty variant: self.default_chat_params.update(kwargs) instead of a fresh dict.
__create_update(w, kwargs, outcome, dcp) ==
    LET merged == [k \in DOMAIN dcp[w] \cup DOMAIN kwargs |->
                      IF k \in DOMAIN kwargs THEN kwargs[k] ELSE dcp[w][k]]
    IN  CallEntry(original_create[w], merged, outcome,
                  [dcp EXCEPT ![w] = merged])

\* OpenAICompatibleWrapper.__create(self, **kwargs)
__create(w, kwargs, outcome, dcp) ==
    LET merged_params == MergeParams(dcp[w], kwargs)
    IN  CallEntry(original_create[w], merged_params, outcome, dcp)

\* Attribute names probed on a wrapper.
InstanceFields ==
    {"base_client", "default_chat_params", "_OpenAICompatibleWrapper__original_create"}
ClassAttributes ==
    {"_OpenAICompatibleWrapper__create", "__doc__"}
ClientAttributes == {"chat", "models", "__doc__"}
AttrNames == InstanceFields \cup ClassAttributes \cup ClientAttributes \cup {"no_such_attr"}

AttrValue(kind, c, w) == [kind |-> kind, client |-> c, w |-> w]
AttributeError == AttrValue("AttributeError", "-", 0)

\* getattr(client, name) on the underlying client instance
ClientGetattr(c, name) ==
    CASE name = "chat" -> AttrValue("chat", c, 0)
      [] name = "models" -> AttrValue("models", c, 0)
      [] name = "__doc__" -> AttrValue("client docstring", "-", 0)
      [] OTHER -> AttributeError

\* Faulty variant: no delegation.
__getattr__missing(w, name) == AttributeError

\* OpenAICompatibleWrapper.__getattr__(self, name)
__getattr__(w, name) == ClientGetattr(base_client[w], name)

\* getattr(wrapper, name): Python consults the instance dictionary, then the
\* class, and calls __getattr__ only when both fail.
WrapperGetattr(w, name) ==
    CASE name = "base_client" -> AttrValue("client", base_client[w], 0)
      [] name = "default_chat_params" -> AttrValue("default_chat_params", "-", w)
      [] name = "_OpenAICompatibleWrapper__original_create" -> original_create[w]
      [] name = "_OpenAICompatibleWrapper__create" -> InterceptOf(w)
      [] name = "__doc__" -> AttrValue("wrapper docstring", "-", 0)
      [] OTHER -> __getattr__(w, name)

\* obj.completions.create for obj the `chat` attribute value of a client
CompletionsCreate(chat) ==
    IF chat.kind = "chat" THEN client_create[chat.client] ELSE AttributeError

\* Faulty variant: back up the client's pristine method, not the current attribute.
SavedCreatePristine(c) == OriginalOf(c)

\* self.base_client.chat.completions.create, read in __init__
SavedCreate(c) == client_create[c]

NoObs == [kind |-> "none", via |-> 0, name |-> "-", kwargs |-> EmptyParams,
          outcome |-> [kind |-> "-", value |-> "-"],
          log |-> <<>>,
          result |-> [kind |-> "-", value |-> "-"]]

WrapperInit ==
    /\ base_client = <<>>
    /\ default_chat_params = <<>>
    /\ original_create = <<>>
    /\ client_create = [c \in Clients |-> OriginalOf(c)]
    /\ ctor_params = <<>>
    /\ ctor_create = <<>>
    /\ obs = NoObs

\* OpenAICompatibleWrapper.__init__(self, base, **chat_params); `c` is the
\* instance base() returns.
__init__(c, chat_params) ==
    /\ Len(base_client) < MaxWrappers
    /\ base_client' = Append(base_client, c)
    /\ default_chat_params' = Append(default_chat_params, chat_params)
    /\ original_create' = Append(original_create, SavedCreate(c))
    /\ client_create' = [client_create EXCEPT ![c] = InterceptOf(Len(base_client) + 1)]
    /\ ctor_params' = Append(ctor_params, chat_params)
    /\ ctor_create' = Append(ctor_create, client_create[c])
    /\ obs' = NoObs
    /\ UNCHANGED schemaVars

\* wrapper.chat.completions.create(**kwargs)
Call(via, kwargs, outcome) ==
    /\ via \in Wrappers
    /\ LET entry == CompletionsCreate(WrapperGetattr(via, "chat"))
           r == CallEntry(entry, kwargs, outcome, default_chat_params)
       IN  /\ obs' = [kind |-> "call", via |-> via, name |-> "-", kwargs |-> kwargs,
                      outcome |-> outcome, log |-> r.log,
                      result |-> r.result]
           /\ default_chat_params' = r.dcp
    /\ UNCHANGED <<base_client, original_create, client_create, ctor_params,
                   ctor_create, schemaVars>>

\* getattr(wrapper, name)
Getattr(via, name) ==
    /\ via \in Wrappers
    /\ obs' = [NoObs EXCEPT !.kind = "getattr", !.via = via, !.name = name,
                            !.result = WrapperGetattr(via, name)]
    /\ UNCHANGED <<base_client, default_chat_params, original_create,
                   client_create, ctor_params, ctor_create, schemaVars>>

\* wrapper.chat.completions.create, not called
ReachCreate(via) ==
    /\ via \in Wrappers
    /\ obs' = [NoObs EXCEPT !.kind = "reach_create", !.via = via,
                            !.result = CompletionsCreate(WrapperGetattr(via, "chat"))]
    /\ UNCHANGED <<base_client, default_chat_params, original_create,
                   client_create, ctor_params, ctor_create, schemaVars>>

(***************************************************************************)
(* Part 2: tool_schema.py                                                  *)
(***************************************************************************)

\* ---- Python str operations, on sequences of characters ----
Whitespace == {" ", "\t", "\n", "\r"}

SetMin(S) == CHOOSE x \in S : \A y \in S : x <= y
SetMax(S) == CHOOSE x \in S : \A y \in S : x >= y

\* s.strip()
Strip(s) ==
    LET keep == {i \in DOMAIN s : s[i] \notin Whitespace}
    IN  IF keep = {} THEN <<>> ELSE SubSeq(s, SetMin(keep), SetMax(keep))

\* 1-based positions at which pat occurs in s
Occurrences(s, pat) ==
    {i \in 1..(Len(s) - Len(pat) + 1) : SubSeq(s, i, i + Len(pat) - 1) = pat}

\* pat in s
Contains(s, pat) == Occurrences(s, pat) # {}

\* s[s.find(pat):], for pat in s
FromFirst(s, pat) == SubSeq(s, SetMin(Occurrences(s, pat)), Len(s))

\* s.split(sep, 1)[-1]
SplitOnceLast(s, sep) ==
    IF Contains(s, sep)
    THEN SubSeq(s, SetMin(Occurrences(s, sep)) + Len(sep), Len(s))
    ELSE s

\* s.split("\n")[0]
SplitLinesFirst(s) ==
    IF Contains(s, <<"\n">>)
    THEN SubSeq(s, 1, SetMin(Occurrences(s, <<"\n">>)) - 1)
    ELSE s

\* ---- the inspected function ----
\* func.__doc__ is None or a str; a parameter has a name, an annotation
\* (the __name__ of its resolved type hint, "" when it has none) and
\* possibly a default value.
NoDoc == [present |-> FALSE, text |-> <<>>]
DocOf(text) == [present |-> TRUE, text |-> text]
DocTruthy(doc) == doc.present /\ doc.text # <<>>

Placeholder ==
    <<"N","o"," ","d","e","s","c","r","i","p","t","i","o","n"," ",
      "p","r","o","v","i","d","e","d",".">>

\* class TypeMappingEnum(Enum)
TypeMappingEnum ==
    [str |-> "string", int |-> "integer", float |-> "number",
     bool |-> "boolean", list |-> "array", dict |-> "object"]

Annotations == DOMAIN TypeMappingEnum \cup {"", "tuple"}

\* type_hints.get(param_name, Any).__name__
TypeHintName(param) == IF param.annotation = "" THEN "Any" ELSE param.annotation

\* Faulty variant: the fallback the source has commented out (default to str).
ResolveTypeFallback(param) ==
    IF TypeHintName(param) \in DOMAIN TypeMappingEnum
    THEN [ok |-> TRUE, tag |-> TypeMappingEnum[TypeHintName(param)]]
    ELSE [ok |-> TRUE, tag |-> TypeMappingEnum["str"]]

\* getattr(TypeMappingEnum, param_type.__name__).value: the tag, or an
\* AttributeError when the enum has no such member.
ResolveType(param) ==
    IF TypeHintName(param) \in DOMAIN TypeMappingEnum
    THEN [ok |-> TRUE, tag |-> TypeMappingEnum[TypeHintName(param)]]
    ELSE [ok |-> FALSE, tag |-> "AttributeError"]

\* Faulty variant: first line, then trimmed.
DescriptionLineTrimmed(f) ==
    IF DocTruthy(f.doc) THEN Strip(SplitLinesFirst(f.doc.text)) ELSE Placeholder

\* func.__doc__.strip().split("\n")[0] if func.__doc__ else "No description provided."
Description(f) ==
    IF DocTruthy(f.doc) THEN SplitLinesFirst(Strip(f.doc.text)) ELSE Placeholder

\* The per-parameter docstring scan: param_schema after the
\* `if func.__doc__ and f"{param_name} (" in func.__doc__` statement.
WithParamDescription(param_schema, f, param) ==
    LET marker == param.name \o <<" ", "(">>
    IN  IF DocTruthy(f.doc) /\ Contains(f.doc.text, marker)
        THEN LET desc == SplitLinesFirst(Strip(
                            SplitOnceLast(FromFirst(f.doc.text, marker), <<")", ":">>)))
             IN  ("description" :> desc) @@ param_schema
        ELSE param_schema

\* Faulty variant: every parameter is required.
RequiredAfterAlways(required, param) == Append(required, param.name)

\* func_schema["parameters"]["required"] after the default/required branch
RequiredAfter(required, param) ==
    IF param.has_default THEN required ELSE Append(required, param.name)

\* param_schema after the default/required branch
WithDefault(param_schema, param) ==
    IF param.has_default
    THEN ("default" :> param.default) @@ param_schema
    ELSE param_schema

\* d[key] = value on an insertion-ordered dict, kept as a sequence of items
DictSet(d, key, value) ==
    IF \E i \in DOMAIN d : d[i].key = key
    THEN [i \in DOMAIN d |-> IF d[i].key = key THEN [key |-> key, value |-> value] ELSE d[i]]
    ELSE Append(d, [key |-> key, value |-> value])

\* The `for param_name, param in parameters.items()` loop from parameter i
\* on; an unresolvable type raises out of the whole function.
RECURSIVE ParametersLoop(_, _, _, _)
ParametersLoop(f, i, properties, required) ==
    IF i > Len(f.params)
    THEN [status |-> "returned", properties |-> properties, required |-> required]
    ELSE LET param == f.params[i]
             t == ResolveType(param)
         IN  IF ~t.ok
             THEN [status |-> "raised", properties |-> <<>>, required |-> <<>>]
             ELSE LET typed == ("type" :> t.tag)
                      described == WithParamDescription(typed, f, param)
                      param_schema == WithDefault(described, param)
                  IN  ParametersLoop(f, i + 1,
                                     DictSet(properties, param.name, param_schema),
                                     RequiredAfter(required, param))

NoSchema == [type |-> "-"]

function_to_tool_schema(f) ==
    LET loop == ParametersLoop(f, 1, <<>>, <<>>)
    IN  IF loop.status = "raised"
        THEN [status |-> "raised", exc |-> "AttributeError", schema |-> NoSchema]
        ELSE [status |-> "returned", exc |-> "-",
              schema |-> [type |-> "function",
                          function |-> [name |-> f.name,
                                        description |-> Description(f),
                                        parameters |-> [type |-> "object",
                                                        properties |-> loop.properties,
                                                        required |-> loop.required]]]]

\* ---- inputs ----
ParamNames == << <<"x">>, <<"y">>, <<"z">>, <<"w">> >>

Param(name, annotation, has_default) ==
    [name |-> name, annotation |-> annotation, has_default |-> has_default,
     default |-> IF has_default THEN "C" ELSE "-"]

\* Parameter lists of n parameters named x, y, ... with annotations from A.
RECURSIVE ParamLists(_, _)
ParamLists(n, A) ==
    IF n = 0 THEN { <<>> }
    ELSE { Append(ps, Param(ParamNames[n], a, d)) :
              ps \in ParamLists(n - 1, A), a \in A, d \in BOOLEAN }

AllParamLists(A) == UNION { ParamLists(n, A) : n \in 0..MaxParams }

\* Docstrings assembled from at most MaxChunks pieces of the documented
\* convention "<name> (<type>): <text>".
Chunks == { <<"x", " ", "(">>, <<"y", " ", "(">>, <<")", ":">>,
            <<"\n">>, <<" ">>, <<"d">> }

RECURSIVE ChunkTexts(_)
ChunkTexts(n) ==
    IF n = 0 THEN { <<>> }
    ELSE LET shorter == ChunkTexts(n - 1)
         IN  shorter \cup { t \o c : t \in shorter, c \in Chunks }

Docs == {NoDoc} \cup { DocOf(t) : t \in ChunkTexts(MaxChunks) }

FewDocs == { NoDoc,
             DocOf(<<"d", "\n", "x", " ", "(", "d", ")", ":", " ", "d">>) }

FewParamLists ==
    { <<>>,
      << Param(<<"x">>, "int", FALSE) >>,
      << Param(<<"x">>, "str", FALSE), Param(<<"y">>, "str", TRUE) >>,
      << Param(<<"y">>, "bool", TRUE), Param(<<"x">>, "", FALSE) >> }

Function(doc, params) == [name |-> "f", doc |-> doc, params |-> params]

\* Every docstring with a few signatures, and every signature with a few
\* docstrings.
Functions ==
    { Function(d, ps) : d \in Docs, ps \in FewParamLists }
    \cup { Function(d, ps) : d \in FewDocs, ps \in AllParamLists(Annotations) }

NotRun == [status |-> "not run", exc |-> "-", schema |-> NoSchema]

NoCall == [kind |-> "none", args |-> <<>>, kwargs |-> EmptyParams,
           outcome |-> [kind |-> "-", value |-> "-"],
           calls |-> <<>>,
           result |-> [kind |-> "-", value |-> "-"]]

SchemaInit ==
    /\ WrapperInit
    /\ func \in Functions
    /\ result = NotRun
    /\ decorated = [state |-> "none", schema |-> NoSchema]
    /\ computed = 0
    /\ wcall = NoCall

\* result = function_to_tool_schema(func)
Infer ==
    /\ result = NotRun
    /\ result' = function_to_tool_schema(func)
    /\ UNCHANGED <<func, decorated, computed, wcall, wrapperVars>>

SchemaNext == Infer

SchemaSpec == SchemaInit /\ [][SchemaNext]_vars

\* ---- tool_schema_decorator ----
\* Positional and keyword arguments a caller passes, and what the decorated
\* function does with them.
ArgLists == { <<>>, <<"Paris">> }
KwargSets == { EmptyParams, "unit" :> "F" }
FuncOutcomes == { [kind |-> "return", value |-> "sunny"],
                  [kind |-> "raise", value |-> "ValueError"] }

\* Signatures with and without unresolvable parameters, with and without
\* documentation.
DecoratorFunctions ==
    { Function(d, ps) : d \in FewDocs, ps \in AllParamLists({"str", "int", ""}) }

\* Faulty variant: the schema is rebuilt on every call.
wrapper_recompute(schema, count, args, kwargs, outcome) ==
    [calls |-> << [args |-> args, kwargs |-> kwargs] >>,
     result |-> outcome,
     schema |-> function_to_tool_schema(func).schema,
     computed |-> count + 1]

\* def wrapper(*args, **kwargs): return func(*args, **kwargs)
\* Yields the calls func received, what the caller observes, and the
\* wrapper's schema attribute and the number of schema computations after.
wrapper(schema, count, args, kwargs, outcome) ==
    [calls |-> << [args |-> args, kwargs |-> kwargs] >>,
     result |-> outcome,
     schema |-> schema,
     computed |-> count]

DecoratorInit ==
    /\ WrapperInit
    /\ func \in DecoratorFunctions
    /\ result = NotRun
    /\ decorated = [state |-> "none", schema |-> NoSchema]
    /\ computed = 0
    /\ wcall = NoCall

\* tool_schema_decorator(func): a failure of function_to_tool_schema leaves
\* no wrapper.
tool_schema_decorator ==
    /\ decorated.state = "none"
    /\ LET schema == function_to_tool_schema(func)
       IN  /\ result' = schema
           /\ decorated' = IF schema.status = "returned"
                           THEN [state |-> "wrapper", schema |-> schema.schema]
                           ELSE [state |-> "failed", schema |-> NoSchema]
    /\ computed' = computed + 1
    /\ UNCHANGED <<func, wcall, wrapperVars>>

\* wrapper(*args, **kwargs) on the decorated function
CallWrapper(args, kwargs, outcome) ==
    /\ decorated.state = "wrapper"
    /\ LET r == wrapper(decorated.schema, computed, args, kwargs, outcome)
       IN  /\ wcall' = [kind |-> "call", args |-> args, kwargs |-> kwargs,
                        outcome |-> outcome, calls |-> r.calls, result |-> r.result]
           /\ decorated' = [decorated EXCEPT !.schema = r.schema]
           /\ computed' = r.computed
    /\ UNCHANGED <<func, result, wrapperVars>>

DecoratorNext ==
    \/ tool_schema_decorator
    \/ \E a \in ArgLists, k \in KwargSets, o \in FuncOutcomes : CallWrapper(a, k, o)

DecoratorSpec == DecoratorInit /\ [][DecoratorNext]_vars

SchemaIdle ==
    /\ func = Function(NoDoc, <<>>)
    /\ result = NotRun
    /\ decorated = [state |-> "none", schema |-> NoSchema]
    /\ computed = 0
    /\ wcall = NoCall

Init == WrapperInit /\ SchemaIdle

Next ==
    \/ \E c \in Clients, p \in DefaultSets : __init__(c, p)
    \/ \E w \in Wrappers, k \in ParamSets, o \in Outcomes : Call(w, k, o)
    \/ \E w \in Wrappers, n \in AttrNames : Getattr(w, n)
    \/ \E w \in Wrappers : ReachCreate(w)

Spec == Init /\ [][Next]_vars

(***************************************************************************)
(* Properties of OpenAICompatibleWrapper (checked under Spec)              *)
(***************************************************************************)

\* Positions of the log at which `callee` was invoked.
InvocationsOf(log, callee) == {i \in DOMAIN log : log[i].callee = callee}
RealInvocations(log) == {i \in DOMAIN log : log[i].callee.kind = "original"}

\* Wrappers constructed over client c, in construction order.
RECURSIVE WrappersOn(_, _)
WrappersOn(c, n) ==
    IF n = 0 THEN <<>>
    ELSE IF base_client[n] = c THEN Append(WrappersOn(c, n - 1), n)
         ELSE WrappersOn(c, n - 1)

\* Construction-time defaults of the wrappers ws[1..n], later ones overriding.
RECURSIVE StackedDefaults(_, _)
StackedDefaults(ws, n) ==
    IF n = 0 THEN EmptyParams
    ELSE LET below == StackedDefaults(ws, n - 1)
             d == ctor_params[ws[n]]
         IN  [k \in DOMAIN below \cup DOMAIN d |->
                 IF k \in DOMAIN d THEN d[k] ELSE below[k]]

\* C1: whenever a wrapper's interception function is called with keyword
\* parameters K, that wrapper's saved original is invoked exactly once, with
\* the mapping whose keys are keys(D) union keys(K), K's value on K's keys
\* and D's value elsewhere (D the defaults given at construction); the
\* caller receives what the original entry point returned.
C1_MergeAndDelegate ==
    obs.kind = "call" =>
        /\ obs.result = obs.outcome
        /\ \A i \in DOMAIN obs.log :
              obs.log[i].callee.kind = "intercept" =>
                 LET w == obs.log[i].callee.w
                     K == obs.log[i].params
                     D == ctor_params[w]
                     js == InvocationsOf(obs.log, original_create[w])
                 IN  /\ Cardinality(js) = 1
                     /\ \A j \in js :
                           LET M == obs.log[j].params
                           IN  /\ DOMAIN M = DOMAIN D \cup DOMAIN K
                               /\ \A k \in DOMAIN K : M[k] = K[k]
                               /\ \A k \in DOMAIN D \ DOMAIN K : M[k] = D[k]

\* C1 witness: defaults {model: gpt-x, temperature: 0}, call with
\* {temperature: 1}, the original returns a response.
C1_Witness ==
    /\ obs.kind = "call"
    /\ ctor_params[obs.via] = ("model" :> "gpt-x" @@ "temperature" :> 0)
    /\ obs.kwargs = ("temperature" :> 1)
    /\ obs.result.kind = "return"
    /\ \E i \in DOMAIN obs.log :
          /\ obs.log[i].callee.kind = "original"
          /\ obs.log[i].params = ("model" :> "gpt-x" @@ "temperature" :> 1)

\* C3 (as amended): an attribute name that normal lookup does not find on
\* the wrapper (neither an instance field nor an attribute of its class) is
\* forwarded to the underlying client and yields what the client yields;
\* chat.completions.create reached through the wrapper is an interception
\* function, the one currently installed on the client, never the original.
C3_DelegatesUnknownAttributes ==
    /\ (obs.kind = "getattr" /\ obs.name \notin InstanceFields \cup ClassAttributes)
          => obs.result = ClientGetattr(base_client[obs.via], obs.name)
    /\ obs.kind = "reach_create"
          => /\ obs.result.kind = "intercept"
             /\ obs.result = client_create[base_client[obs.via]]

\* C3 witness: the models attribute was read through a wrapper and came
\* from the client.
C3_Witness ==
    /\ obs.kind = "getattr"
    /\ obs.name = "models"
    /\ obs.result = AttrValue("models", base_client[obs.via], 0)

\* C3 as originally stated: every name other than the three instance fields
\* yields what the same access on the underlying client yields.
C3_Original ==
    (obs.kind = "getattr" /\ obs.name \notin InstanceFields)
        => obs.result = ClientGetattr(base_client[obs.via], obs.name)

\* The chain of interception functions behind a callable.
RECURSIVE ChainOf(_)
ChainOf(callable) ==
    IF callable.kind = "intercept"
    THEN {callable.w} \cup ChainOf(original_create[callable.w])
    ELSE {}

\* The patch of wrapper w is in place: the client's entry point is an
\* interception function whose chain runs through w, and it is w's own
\* unless a later wrapper was constructed over the same client.
Patched(w) ==
    LET c == base_client[w]
        ws == WrappersOn(c, Len(base_client))
    IN  /\ client_create[c] = InterceptOf(ws[Len(ws)])
        /\ w \in ChainOf(client_create[c])

\* C7: when the real entry point raises during an intercepted call, the
\* caller observes that same failure, every interception function involved
\* invoked its saved original exactly once, and the stored defaults, saved
\* originals and the patch are as they were.
C7_FailurePropagates ==
    (obs.kind = "call" /\ obs.outcome.kind = "raise") =>
        /\ obs.result = obs.outcome
        /\ Cardinality(RealInvocations(obs.log)) = 1
        /\ \A i \in DOMAIN obs.log :
              obs.log[i].callee.kind = "intercept" =>
                 Cardinality(InvocationsOf(obs.log,
                                original_create[obs.log[i].callee.w])) = 1
        /\ default_chat_params = ctor_params
        /\ original_create = ctor_create
        /\ \A w \in Wrappers : Patched(w)

\* C7 witness: a call that overrides a default failed with the failure of
\* the real entry point.
C7_Witness ==
    /\ obs.kind = "call"
    /\ obs.outcome = [kind |-> "raise", value |-> "APIError"]
    /\ obs.result = [kind |-> "raise", value |-> "APIError"]
    /\ obs.kwargs # EmptyParams
    /\ Len(obs.log) = 2

\* C9: in every state, each wrapper's stored defaults are those given at
\* construction, its saved original is the entry point found at
\* construction, and its patch is in place.
C9_NoPersistedState ==
    \A w \in Wrappers :
        /\ default_chat_params[w] = ctor_params[w]
        /\ original_create[w] = ctor_create[w]
        /\ Patched(w)

\* C9 witness: after a call whose parameters differ from the defaults of a
\* sole wrapper, the client's entry point is that wrapper's interception.
C9_Witness ==
    /\ obs.kind = "call"
    /\ Len(base_client) = 1
    /\ obs.kwargs = ("temperature" :> 1)
    /\ default_chat_params[1] = ("temperature" :> 0)
    /\ client_create[base_client[1]] = InterceptOf(1)

\* C10: wrappers constructed over one shared client chain: each later
\* wrapper's saved original is the interception function of the one before,
\* and a call through any of them invokes the real entry point of that
\* client exactly once, with the defaults stacked in construction order
\* (later over earlier) and the call's parameters over all of them.
C10_PatchesChain ==
    \A c \in Clients :
        LET ws == WrappersOn(c, Len(base_client))
        IN  Len(ws) >= 2 =>
              /\ \A n \in 2..Len(ws) : original_create[ws[n]] = InterceptOf(ws[n - 1])
              /\ (obs.kind = "call" /\ base_client[obs.via] = c) =>
                    LET js == RealInvocations(obs.log)
                        S == StackedDefaults(ws, Len(ws))
                    IN  /\ Cardinality(js) = 1
                        /\ \A j \in js :
                              /\ obs.log[j].callee = OriginalOf(c)
                              /\ obs.log[j].params =
                                    [k \in DOMAIN S \cup DOMAIN obs.kwargs |->
                                        IF k \in DOMAIN obs.kwargs
                                        THEN obs.kwargs[k] ELSE S[k]]

\* C10 witness: W1 {model, temperature 0} and W2 {temperature 1} share a
\* client; a call through W1 with no parameters reached the real entry point
\* with {model, temperature 1}.
C10_Witness ==
    /\ Len(base_client) >= 2
    /\ base_client[1] = base_client[2]
    /\ ctor_params[1] = ("model" :> "gpt-x" @@ "temperature" :> 0)
    /\ ctor_params[2] = ("temperature" :> 1)
    /\ obs.kind = "call"
    /\ obs.via = 1
    /\ obs.kwargs = EmptyParams
    /\ \E j \in DOMAIN obs.log :
          /\ obs.log[j].callee = OriginalOf(base_client[1])
          /\ obs.log[j].params = ("model" :> "gpt-x" @@ "temperature" :> 1)

(***************************************************************************)
(* Properties of function_to_tool_schema (checked under SchemaSpec)        *)
(***************************************************************************)

Returned == result.status = "returned"
Properties == result.schema.function.parameters.properties
Required == result.schema.function.parameters.required

HasNoDefault(param) == ~param.has_default
NamesOf(params) == [i \in DOMAIN params |-> params[i].name]

\* C2: the keys of `properties` are the function's parameter names, each
\* once, in declaration order; `required` is the parameters without a
\* default, in declaration order; an entry carries `default` exactly when
\* its parameter has one.
C2_PropertiesAndRequired ==
    Returned =>
        /\ [i \in DOMAIN Properties |-> Properties[i].key] = NamesOf(func.params)
        /\ Required = NamesOf(SelectSeq(func.params, HasNoDefault))
        /\ \A i \in DOMAIN func.params :
              /\ (\E j \in DOMAIN Required : Required[j] = func.params[i].name)
                    <=> ~func.params[i].has_default
              /\ ("default" \in DOMAIN Properties[i].value)
                    <=> func.params[i].has_default
              /\ func.params[i].has_default
                    => Properties[i].value["default"] = func.params[i].default

\* C2 witness: greet(name: str, loud: bool = default)-like signature, two
\* parameters of which only the second has a default.
C2_Witness ==
    /\ Returned
    /\ Len(func.params) = 2
    /\ ~func.params[1].has_default
    /\ func.params[2].has_default
    /\ Required = << func.params[1].name >>
    /\ "default" \in DOMAIN Properties[2].value

\* The six supported annotations and their tags, as the claim lists them.
SupportedTag(annotation) ==
    CASE annotation = "str" -> "string"
      [] annotation = "int" -> "integer"
      [] annotation = "float" -> "number"
      [] annotation = "bool" -> "boolean"
      [] annotation = "list" -> "array"
      [] annotation = "dict" -> "object"
      [] OTHER -> "none"

\* C4: the computation raises, and returns no schema, exactly when some
\* parameter's annotation is not one of the six supported ones (an
\* unannotated parameter included); when it returns, every entry's type is
\* the tag of its parameter's annotation.
C4_TypeResolution ==
    result # NotRun =>
        /\ (result.status = "raised")
              <=> (\E i \in DOMAIN func.params :
                      SupportedTag(func.params[i].annotation) = "none")
        /\ result.status = "raised" => result.schema = NoSchema
        /\ Returned =>
              \A i \in DOMAIN func.params :
                  Properties[i].value["type"] = SupportedTag(func.params[i].annotation)

\* C4 witness: one parameter resolves, a later unannotated one does not,
\* and the computation raised.
C4_Witness ==
    /\ result.status = "raised"
    /\ Len(func.params) = 2
    /\ func.params[1].annotation = "float"
    /\ func.params[2].annotation = ""

NonBlank(text) == {i \in DOMAIN text : text[i] \notin Whitespace}
SchemaDescription == result.schema.function.description

\* C5 (as amended): without documentation text the description is the
\* placeholder; with it, the description starts at the first
\* non-whitespace character of the documentation and runs to the end of
\* that line, or to the last non-whitespace character of the documentation
\* if that comes first (empty when the documentation is all whitespace).
C5_DescriptionFirstTextLine ==
    Returned =>
        IF ~func.doc.present \/ func.doc.text = <<>>
        THEN SchemaDescription = Placeholder
        ELSE LET text == func.doc.text
                 nb == NonBlank(text)
             IN  IF nb = {}
                 THEN SchemaDescription = <<>>
                 ELSE LET first == SetMin(nb)
                          last == SetMax(nb)
                          breaks == {i \in first..last : text[i] = "\n"}
                          stop == IF breaks = {} THEN last ELSE SetMin(breaks) - 1
                      IN  SchemaDescription = SubSeq(text, first, stop)

\* C5 witness: the documentation starts with a line break (its first line
\* is empty) and the description is the first text line.
C5_Witness ==
    /\ Returned
    /\ func.doc = DocOf(<<"\n", "d", "\n", "d">>)
    /\ SchemaDescription = <<"d">>

\* C5 as originally stated: the description is the placeholder exactly when
\* there is no documentation text, and otherwise the first line of the
\* documentation, trimmed of leading and trailing whitespace.
C5_Original ==
    Returned =>
        /\ (SchemaDescription = Placeholder)
              <=> (~func.doc.present \/ func.doc.text = <<>>)
        /\ (func.doc.present /\ func.doc.text # <<>>)
              => SchemaDescription = Strip(SplitLinesFirst(func.doc.text))

\* The per-parameter block the documented convention describes: the text
\* after the first "):" that follows the first "<name> (", up to the next
\* line break, trimmed; <<>> when there is no such block or it is empty.
BlockText(doc, name) ==
    LET marker == name \o <<" ", "(">>
    IN  IF ~doc.present \/ ~Contains(doc.text, marker) THEN <<>>
        ELSE LET tail == FromFirst(doc.text, marker)
             IN  IF ~Contains(tail, <<")", ":">>) THEN <<>>
                 ELSE Strip(SplitLinesFirst(SplitOnceLast(tail, <<")", ":">>)))

\* C8: a malformed or partial per-parameter block does not make the
\* computation fail, and the entry then has no `description`; the entry has
\* one only for a recognizable block, and it is that block's text.
C8_MalformedBlockOmitted ==
    /\ (result # NotRun /\ \A i \in DOMAIN func.params :
                              SupportedTag(func.params[i].annotation) # "none")
          => Returned
    /\ Returned =>
          \A i \in DOMAIN func.params :
              LET text == BlockText(func.doc, func.params[i].name)
                  entry == Properties[i].value
              IN  IF text = <<>>
                  THEN "description" \notin DOMAIN entry
                  ELSE /\ "description" \in DOMAIN entry
                       /\ entry["description"] = text

(***************************************************************************)
(* Properties of tool_schema_decorator (checked under DecoratorSpec)       *)
(***************************************************************************)

\* C6: the schema is computed once, at decoration: whatever calls were made,
\* function_to_tool_schema has run exactly once, the wrapper's schema
\* attribute is what that run returned, and each call of the wrapper passed
\* its positional and keyword arguments to the original function in one
\* invocation and handed back its outcome.
C6_SchemaComputedOnce ==
    /\ decorated.state = "wrapper"
          => /\ computed = 1
             /\ result.status = "returned"
             /\ decorated.schema = result.schema
    /\ wcall.kind = "call"
          => /\ decorated.state = "wrapper"
             /\ wcall.calls = << [args |-> wcall.args, kwargs |-> wcall.kwargs] >>
             /\ wcall.result = wcall.outcome

\* C6 witness: a decorated two-parameter function was called with one
\* positional and one keyword argument and returned.
C6_Witness ==
    /\ decorated.state = "wrapper"
    /\ Len(func.params) = 2
    /\ wcall.kind = "call"
    /\ wcall.args = <<"Paris">>
    /\ wcall.kwargs = ("unit" :> "F")
    /\ wcall.result = [kind |-> "return", value |-> "sunny"]
    /\ computed = 1

====
